---- MODULE Spec2Model ----
(***************************************************************************)
(* GoBank: the JSON API server (login, account CRUD, the JWT gate in front *)
(* of /account/{id}, /transfer) over the PostgreSQL accounts table.        *)
(* The state is the accounts table with its id sequence, the wall clock,   *)
(* the tokens createJWT has signed, the transfers the workers hold, and    *)
(* the response written last.                                              *)
(***************************************************************************)
EXTENDS Integers, Sequences, FiniteSets, TLC

VARIABLES
    accounts,   \* the rows of the accounts table
    idSeq,      \* the last value of the id sequence
    now,        \* the wall clock, in seconds
    issued,     \* the tokens handleLogin has sent, each with the account's id
    pending,    \* per worker: the transfer it holds and its answer
    resp,       \* the response written last, and by which handler
    opening,    \* the accounts table as the server found it
    deleted     \* the ids handleDeleteAccount has answered as deleted

vars == <<accounts, idSeq, now, issued, pending, resp, opening, deleted>>

-----------------------------------------------------------------------------
(* Bounds of the model *)

NumWorkers == 3
MaxAccounts == 2
MaxNumber == 2
MaxBalance == 2
MaxTicks == 1

Workers == 1..NumWorkers
Numbers == 1..MaxNumber
Passwords == {"pw1", "pw2"}
Amounts == {0 - 1, 0, 1, MaxBalance + 1}

(* Program constants *)

StatusOK == 200
StatusBadRequest == 400
StatusForbidden == 403
StatusMethodNotAllowed == 405
TokenExpiresAt == 1516239022

JWT_SECRET == "JWT_SECRET"
Nil == [nil |-> TRUE]
Malformed == [malformed |-> TRUE]

-----------------------------------------------------------------------------
(* types.go (not among the sources): Account, NewAccount, ValidatePassword *)

\* the salted one-way hash of a password
Hash(pw) == <<"hash", pw>>

\* NewAccount(firstName, lastName, password): the function sees the request
\* only, never the store, so the number it assigns is any account number;
\* the balance is zero and the password is stored hashed
NewAccount(number, password) ==
    [number |-> number, encrypted_password |-> Hash(password), balance |-> 0]

\* acc.ValidatePassword(pw): TRUE exactly when pw hashes to the stored hash
ValidatePassword(acc, pw) == acc.encrypted_password = Hash(pw)

-----------------------------------------------------------------------------
(* PostgreStore *)

\* id SERIAL PRIMARY KEY: the INSERT names no id, the sequence gives the next
NextID(seq) == seq + 1

\* CreateAccount with the id taken from the number of rows, not the sequence
CreateAccountCountingRows(tbl, seq, acc) ==
    tbl \cup {[id |-> Cardinality(tbl) + 1, number |-> acc.number,
               encrypted_password |-> acc.encrypted_password,
               balance |-> acc.balance]}

\* INSERT INTO accounts (..., number, encrypted_password, balance, ...)
CreateAccount(tbl, seq, acc) ==
    tbl \cup {[id |-> NextID(seq), number |-> acc.number,
               encrypted_password |-> acc.encrypted_password,
               balance |-> acc.balance]}

\* UpdateAccount returns nil and runs no statement
UpdateAccount(tbl, acc) == tbl

\* DELETE FROM accounts WHERE id = $1: no error when no row matches
DeleteAccount(tbl, id) == {r \in tbl : r.id # id}

\* SELECT * FROM accounts WHERE number = $1: the rows the query yields; the
\* caller takes the first one, in whatever order the database returns them
GetAccountByNumber(tbl, number) == {r \in tbl : r.number = number}

\* SELECT * FROM accounts WHERE id = $1
GetAccountByID(tbl, id) == {r \in tbl : r.id = id}

\* SELECT * FROM accounts
GetAccounts(tbl) == tbl

-----------------------------------------------------------------------------
(* HTTP plumbing *)

NoError == [error |-> "<nil>"]
APIError(msg) == [error |-> msg]

WriteJSON(status, v) == [status |-> status, body |-> v]

\* what an apiFunc leaves behind: the error it returns and the response it
\* has written itself (Nil when it wrote none)
Failed(msg) == [err |-> APIError(msg), written |-> Nil]
Wrote(r) == [err |-> NoError, written |-> r]

\* a non-nil error is answered with 400 and the error as body; when the
\* apiFunc had already written a header (http.Error), that status stands
makeHTTPHandlerFunc(out) ==
    IF out.err = NoError THEN out.written
    ELSE IF out.written # Nil THEN out.written
    ELSE WriteJSON(StatusBadRequest, out.err)

\* http.Error(w, "Method not allowed", http.StatusMethodNotAllowed)
MethodNotAllowed == [text |-> "Method not allowed"]

\* strconv.Atoi over the decimal digits
Digits == <<"0", "1", "2", "3", "4", "5", "6", "7", "8", "9">>
IsDigit(c) == \E i \in 1..Len(Digits) : Digits[i] = c
DigitValue(c) == (CHOOSE i \in 1..Len(Digits) : Digits[i] = c) - 1

RECURSIVE AtoiValue(_)
AtoiValue(s) ==
    IF s = <<>> THEN 0
    ELSE AtoiValue(SubSeq(s, 1, Len(s) - 1)) * 10 + DigitValue(s[Len(s)])

\* getID: the {id} path variable parsed as an integer, or an error
getID(idStr) ==
    IF idStr # <<>> /\ \A i \in 1..Len(idStr) : IsDigit(idStr[i])
    THEN [id |-> AtoiValue(idStr), err |-> FALSE]
    ELSE [id |-> 0, err |-> TRUE]

\* the decimal text of a number below 10, as a client writes it in the path
Itoa(n) == <<Digits[n + 1]>>

-----------------------------------------------------------------------------
(* JWT *)

\* createJWT: HS256 over the claims ExpiresAt (a fixed instant) and
\* AccountNumber, signed with JWT_SECRET; no registered "exp" claim is set
createJWT(account) ==
    [form |-> "jwt", alg |-> "HS256", key |-> JWT_SECRET,
     claims |-> [ExpiresAt |-> TokenExpiresAt,
                 AccountNumber |-> account.number]]

\* jwt.Parse with the key function of validateJWT. A string that is not three
\* segments yields a nil token; a header that does not decode, a signing
\* method that is not HMAC, a signature made with another key and a registered
\* "exp" claim in the past each yield the token with Valid = false and an error
validateJWT(tokenString, clock) ==
    IF tokenString.form \in {"empty", "segments"}
    THEN [token |-> Nil, err |-> TRUE]
    ELSE IF tokenString.form = "badheader"
    THEN [token |-> [Valid |-> FALSE, claims |-> <<>>], err |-> TRUE]
    ELSE IF tokenString.alg # "HS256"
    THEN [token |-> [Valid |-> FALSE, claims |-> tokenString.claims], err |-> TRUE]
    ELSE IF tokenString.key # JWT_SECRET
    THEN [token |-> [Valid |-> FALSE, claims |-> tokenString.claims], err |-> TRUE]
    ELSE IF "exp" \in DOMAIN tokenString.claims /\ clock > tokenString.claims.exp
    THEN [token |-> [Valid |-> FALSE, claims |-> tokenString.claims], err |-> TRUE]
    ELSE [token |-> [Valid |-> TRUE, claims |-> tokenString.claims], err |-> FALSE]

\* PermissionDenied: 403 {error: "Forbidden"}
PermissionDenied == WriteJSON(StatusForbidden, APIError("Forbidden"))

\* withJWTAuth up to the call of the wrapped handler: "panic" (token.Valid
\* read through a nil token), "denied" or "admitted"
withJWTAuth(tbl, clock, idStr, tokenString) ==
    LET p == validateJWT(tokenString, clock)
        userID == getID(idStr)
        rows == GetAccountByID(tbl, userID.id)
    IN  IF p.err /\ p.token = Nil THEN "panic"
        ELSE IF p.err /\ ~p.token.Valid THEN "denied"
        ELSE IF userID.err THEN "denied"
        ELSE IF rows = {} THEN "denied"
        ELSE IF \E account \in rows :
                    account.number # p.token.claims.AccountNumber
        THEN "denied"
        ELSE "admitted"

-----------------------------------------------------------------------------
(* The handlers, as functions of the store and the request *)

\* the Account as it is serialised: the encrypted password is left out
AccountJSON(acc) == [id |-> acc.id, number |-> acc.number, balance |-> acc.balance]

\* the first row of a query result, Nil when there is none
FirstRow(rows) == IF rows = {} THEN {Nil} ELSE rows

\* handleLogin; acc is the row GetAccountByNumber returned (Nil: not found)
handleLogin(method, body, acc) ==
    IF method # "POST" THEN Failed("method not allowed")
    ELSE IF body = Malformed THEN Failed("decode")
    ELSE IF acc = Nil THEN Failed("account not found")
    ELSE IF ValidatePassword(acc, body.password) THEN Failed("not authenticated")
    ELSE Wrote(WriteJSON(StatusOK,
                         [token |-> createJWT(acc), number |-> acc.number]))

\* handleGetAccount
handleGetAccount(tbl) ==
    Wrote(WriteJSON(StatusOK, [list |-> {AccountJSON(a) : a \in GetAccounts(tbl)}]))

\* handleCreateAccount; number is the one NewAccount assigns. The account
\* written back is the one NewAccount built: the INSERT returns no id
handleCreateAccount(body, number) ==
    IF body = Malformed THEN Failed("decode")
    ELSE Wrote(WriteJSON(StatusOK,
                         [id |-> 0, number |-> number, balance |-> 0]))

\* handleAccount: GET lists, POST creates, any other method is answered 405
\* by http.Error and returned as an error
handleAccount(method, tbl, body, number) ==
    IF method = "GET" THEN handleGetAccount(tbl)
    ELSE IF method = "POST" THEN handleCreateAccount(body, number)
    ELSE [err |-> APIError("method not allowed"),
          written |-> WriteJSON(StatusMethodNotAllowed, MethodNotAllowed)]

\* the table after handleCreateAccount
CreateAccountStore(tbl, seq, body, number) ==
    IF body = Malformed THEN tbl
    ELSE CreateAccount(tbl, seq, NewAccount(number, body.password))

\* the id sequence after handleCreateAccount
CreateAccountSeq(seq, body) ==
    IF body = Malformed THEN seq ELSE NextID(seq)

\* handleDeleteAccount
handleDeleteAccount(tbl, idStr) ==
    LET id == getID(idStr)
    IN  IF id.err THEN Failed("invalid id")
        ELSE Wrote(WriteJSON(StatusOK, [deleted |-> id.id]))

\* handleGetAccountByID, the handler wrapped by withJWTAuth
handleGetAccountByID(tbl, method, idStr) ==
    LET id == getID(idStr)
        rows == GetAccountByID(tbl, id.id)
    IN  IF method = "GET"
        THEN IF id.err THEN Failed("invalid id")
             ELSE IF rows = {} THEN Failed("account not found")
             ELSE Wrote(WriteJSON(StatusOK,
                                  AccountJSON(CHOOSE a \in rows : TRUE)))
        ELSE IF method = "DELETE" THEN handleDeleteAccount(tbl, idStr)
        ELSE [err |-> APIError("method not allowed"),
              written |-> WriteJSON(StatusMethodNotAllowed, MethodNotAllowed)]

\* the table after handleGetAccountByID
AccountByIDStore(tbl, method, idStr) ==
    IF method = "DELETE" /\ ~getID(idStr).err
    THEN DeleteAccount(tbl, getID(idStr).id)
    ELSE tbl

\* handleTransferAccount: the body is decoded and written back with 200
handleTransferAccount(body) ==
    IF body = Malformed THEN Failed("decode")
    ELSE Wrote(WriteJSON(StatusOK, body))

\* a transfer that debits the source and never credits the destination
TransferStoreDebitOnly(tbl, body) ==
    IF body = Malformed THEN tbl
    ELSE {IF r.number = body.source
          THEN [r EXCEPT !.balance = @ - body.amount]
          ELSE r : r \in tbl}

\* the table after handleTransferAccount: the handler calls no store method
TransferStore(tbl, body) == tbl

-----------------------------------------------------------------------------
(* What clients send *)

Methods == {"GET", "POST", "DELETE"}

\* the Authorization header of a request that carries none
NoHeader == [form |-> "empty", alg |-> "", key |-> "", claims |-> <<>>]

\* Authorization headers no login has produced: none at all, a string that is
\* not three segments, an undecodable header, alg "none", a foreign key
ForgedTokens ==
    {NoHeader,
     [form |-> "segments", alg |-> "", key |-> "", claims |-> <<>>],
     [form |-> "badheader", alg |-> "", key |-> "", claims |-> <<>>],
     [form |-> "jwt", alg |-> "none", key |-> "",
      claims |-> [AccountNumber |-> 1]],
     [form |-> "jwt", alg |-> "HS256", key |-> "attacker",
      claims |-> [AccountNumber |-> 1]]}

IssuedTokens == {i.token : i \in issued}
Tokens == ForgedTokens \cup IssuedTokens

\* the Authorization header of a transfer: none, or a token a login has sent
TransferHeaders ==
    {NoHeader} \cup (IF issued = {} THEN {}
                     ELSE {CHOOSE t \in IssuedTokens : TRUE})

LoginBodies ==
    {Malformed} \cup [number : 1..(MaxNumber + 1), password : Passwords]
CreateBodies == {Malformed} \cup [password : {"pw1"}]
PathIDs == {Itoa(i) : i \in 1..MaxAccounts} \cup {<<"m", "e">>}
TransferBodies ==
    {Malformed} \cup [source : Numbers, destination : Numbers, amount : Amounts]

Idle == [stage |-> "idle"]

Response(route, by, r) ==
    [route |-> route, by |-> by, status |-> r.status, body |-> r.body]

\* a panic in a handler: net/http recovers it and closes the connection
\* without a response
NoResponse == [status |-> 0, body |-> Nil]

-----------------------------------------------------------------------------
(* The server *)

\* the database as the server finds it: one account, empty or funded, the
\* sequence past its id; no token sent yet
Init ==
    /\ \E b1 \in {0, MaxBalance} :
          accounts = {[id |-> 1, number |-> 1,
                       encrypted_password |-> Hash("pw1"), balance |-> b1]}
    /\ idSeq = 1
    /\ now = TokenExpiresAt
    /\ issued = {}
    /\ pending = [w \in Workers |-> Idle]
    /\ resp = Response("", "", NoResponse)
    /\ opening = accounts
    /\ deleted = {}

\* /login
Login(method, body) ==
    \E acc \in FirstRow(IF body = Malformed THEN {}
                        ELSE GetAccountByNumber(accounts, body.number)) :
        LET r == makeHTTPHandlerFunc(handleLogin(method, body, acc))
        IN  /\ resp' = Response("/login", "handleLogin", r)
            /\ issued' = IF r.status = StatusOK
                         THEN issued \cup {[token |-> r.body.token,
                                            account |-> acc.id]}
                         ELSE issued
            /\ UNCHANGED <<accounts, idSeq, now, pending, opening, deleted>>

\* GET /account
ListAccounts ==
    /\ resp' = Response("/account", "handleGetAccount",
                        makeHTTPHandlerFunc(
                            handleAccount("GET", accounts, Malformed, 0)))
    /\ UNCHANGED <<accounts, idSeq, now, issued, pending, opening, deleted>>

\* POST /account; number is the one NewAccount assigns
CreateAccountReq(body, number) ==
    /\ idSeq < MaxAccounts
    /\ resp' = Response("/account", "handleCreateAccount",
                        makeHTTPHandlerFunc(
                            handleAccount("POST", accounts, body, number)))
    /\ accounts' = CreateAccountStore(accounts, idSeq, body, number)
    /\ idSeq' = CreateAccountSeq(idSeq, body)
    /\ UNCHANGED <<now, issued, pending, opening, deleted>>

\* DELETE /account
AccountMethodNotAllowed ==
    /\ resp' = Response("/account", "handleAccount",
                        makeHTTPHandlerFunc(
                            handleAccount("DELETE", accounts, Malformed, 0)))
    /\ UNCHANGED <<accounts, idSeq, now, issued, pending, opening, deleted>>

\* /account/{id}: withJWTAuth, then handleGetAccountByID when it admits; the
\* lookup of the gate and the statement of the handler are one step
AccountByID(method, idStr, token) ==
    LET gate == withJWTAuth(accounts, now, idStr, token)
    IN  /\ resp' =
              IF gate = "panic"
              THEN Response("/account/{id}", "withJWTAuth", NoResponse)
              ELSE IF gate = "denied"
              THEN Response("/account/{id}", "withJWTAuth", PermissionDenied)
              ELSE Response("/account/{id}", "handleGetAccountByID",
                            makeHTTPHandlerFunc(
                                handleGetAccountByID(accounts, method, idStr)))
        /\ accounts' = IF gate = "admitted"
                       THEN AccountByIDStore(accounts, method, idStr)
                       ELSE accounts
        /\ deleted' = IF gate = "admitted" /\ method = "DELETE"
                         /\ resp'.status = StatusOK
                      THEN deleted \cup {resp'.body.deleted}
                      ELSE deleted
        /\ UNCHANGED <<idSeq, now, issued, pending, opening>>

\* /transfer: registered without withJWTAuth; the Authorization header
\* is not read
TransferStep(body) ==
    /\ resp' = Response("/transfer", "handleTransferAccount",
                        makeHTTPHandlerFunc(handleTransferAccount(body)))
    /\ accounts' = TransferStore(accounts, body)
    /\ UNCHANGED <<idSeq, now, issued, opening, deleted>>

\* a transfer received and answered by a free worker
Transfer(body, token) ==
    /\ {w \in Workers : pending[w] = Idle} # {}
    /\ TransferStep(body)
    /\ UNCHANGED pending

\* a second passes
Tick ==
    /\ now < TokenExpiresAt + MaxTicks
    /\ now' = now + 1
    /\ UNCHANGED <<accounts, idSeq, issued, pending, resp, opening, deleted>>

Next ==
    \/ \E body \in LoginBodies : Login("POST", body)
    \/ \E method \in Methods \ {"POST"} : Login(method, Malformed)
    \/ ListAccounts
    \/ \E body \in CreateBodies, number \in Numbers : CreateAccountReq(body, number)
    \/ AccountMethodNotAllowed
    \/ \E method \in Methods, idStr \in PathIDs, token \in Tokens :
          AccountByID(method, idStr, token)
    \/ \E body \in TransferBodies, token \in TransferHeaders :
          Transfer(body, token)
    \/ Tick

Spec == Init /\ [][Next]_vars

-----------------------------------------------------------------------------
(* N transfers against one source account, each held by its own worker *)

DrainBodies == [source : {1}, destination : {2}, amount : 1..MaxBalance]

\* the source holds up to what the workers can ask for together; every
\* worker has received its transfer and none has answered
InitDrain ==
    /\ \E b1 \in 0..(NumWorkers * MaxBalance), b2 \in 0..MaxBalance :
          accounts = {[id |-> 1, number |-> 1,
                       encrypted_password |-> Hash("pw1"), balance |-> b1],
                      [id |-> 2, number |-> 2,
                       encrypted_password |-> Hash("pw1"), balance |-> b2]}
    /\ idSeq = 2
    /\ now = TokenExpiresAt
    /\ issued = {}
    /\ pending \in [Workers -> [stage : {"received"}, body : DrainBodies,
                                status : {0}]]
    /\ resp = Response("", "", NoResponse)
    /\ opening = accounts
    /\ deleted = {}

\* worker w runs handleTransferAccount on the transfer it holds
DrainTransfer(w) ==
    /\ pending[w].stage = "received"
    /\ TransferStep(pending[w].body)
    /\ pending' = [pending EXCEPT ![w] = [stage |-> "answered",
                                          body |-> pending[w].body,
                                          status |-> resp'.status]]

NextDrain == \E w \in Workers : DrainTransfer(w)

SpecDrain == InitDrain /\ [][NextDrain]_vars

-----------------------------------------------------------------------------
(* Properties *)

RECURSIVE SumBalances(_)
SumBalances(rows) ==
    IF rows = {} THEN 0
    ELSE LET r == CHOOSE x \in rows : TRUE
         IN  r.balance + SumBalances(rows \ {r})

\* the balances of the transfer's two accounts, added up
PairSum(tbl, body) ==
    SumBalances({r \in tbl : r.number \in {body.source, body.destination}})

\* amount > 0, two distinct accounts that exist, the source can pay
ValidTransfer(tbl, body) ==
    /\ body # Malformed
    /\ body.amount > 0
    /\ body.source # body.destination
    /\ Cardinality(GetAccountByNumber(tbl, body.source)) = 1
    /\ Cardinality(GetAccountByNumber(tbl, body.destination)) = 1
    /\ \A a \in GetAccountByNumber(tbl, body.source) : a.balance >= body.amount

\* tbl2 is tbl with the source debited and the destination credited
Applied(tbl, tbl2, body) ==
    /\ \A a \in GetAccountByNumber(tbl, body.source) :
          [a EXCEPT !.balance = @ - body.amount] \in tbl2
    /\ \A a \in GetAccountByNumber(tbl, body.destination) :
          [a EXCEPT !.balance = @ + body.amount] \in tbl2

\* C1: a valid transfer is answered 200 with the source debited and the
\* destination credited by the amount, and no transfer of an amount > 0
\* between two existing accounts is answered 200 without both changes
TransferMovesFunds ==
    [][\A body \in TransferBodies, token \in TransferHeaders :
          Transfer(body, token) =>
             /\ ValidTransfer(accounts, body) =>
                   /\ resp'.status = StatusOK
                   /\ Applied(accounts, accounts', body)
             /\ ( /\ resp'.status = StatusOK
                  /\ body.amount > 0
                  /\ body.source # body.destination
                  /\ GetAccountByNumber(accounts, body.source) # {}
                  /\ GetAccountByNumber(accounts, body.destination) # {} )
                   => Applied(accounts, accounts', body)]_vars

\* C2: a step of the transfer handler, answered 200 or 400, leaves the sum of
\* the two accounts' balances and the total of all balances as they were
TransferConservesBalances ==
    [][resp'.by = "handleTransferAccount" =>
          /\ SumBalances(accounts') = SumBalances(accounts)
          /\ resp'.status = StatusOK =>
                PairSum(accounts', resp'.body) = PairSum(accounts, resp'.body)]_vars

\* a valid transfer between two existing accounts has just been answered 200
ValidTransferAnswered ==
    /\ resp.by = "handleTransferAccount"
    /\ resp.status = StatusOK
    /\ ValidTransfer(accounts, resp.body)

\* C3: a transfer of an amount <= 0, or of more than the source holds, is
\* answered 400 with an error body and changes no balance
TransferRejects ==
    [][\A body \in TransferBodies \ {Malformed}, token \in TransferHeaders :
          ( /\ Transfer(body, token)
            /\ \/ body.amount <= 0
               \/ \E a \in GetAccountByNumber(accounts, body.source) :
                     body.amount > a.balance )
          => /\ resp'.status = StatusBadRequest
             /\ "error" \in DOMAIN resp'.body
             /\ accounts' = accounts]_vars

\* the account the path names, as a set (empty: none, or no number in the path)
Addressed(tbl, idStr) ==
    IF getID(idStr).err THEN {} ELSE GetAccountByID(tbl, getID(idStr).id)

\* the answer of the gate when it refuses
Forbidden == Response("/account/{id}", "withJWTAuth", PermissionDenied)

\* C4: GET or DELETE on account B's path with a token that login sent for
\* another existing account A (and for A only) is answered 403, and the table
\* is as before
CrossAccountForbidden ==
    [][\A method \in {"GET", "DELETE"}, idStr \in PathIDs, i \in issued :
          ( /\ AccountByID(method, idStr, i.token)
            /\ GetAccountByID(accounts, i.account) # {}
            /\ \E b \in Addressed(accounts, idStr) :
                  /\ b.id # i.account
                  /\ [token |-> i.token, account |-> b.id] \notin issued )
          => resp' = Forbidden /\ accounts' = accounts]_vars

\* the request fails a check of the gate: the token is none a login has sent,
\* or it names another number than that of the account in the path
FailsGate(tbl, idStr, token) ==
    \/ token \in ForgedTokens
    \/ \A a \in Addressed(tbl, idStr) : a.number # token.claims.AccountNumber

\* C5: every request to /account/{id} that fails a check of the gate is
\* answered 403 {error: "Forbidden"} by the gate
GateDeniesUniformly ==
    [][\A method \in Methods, idStr \in PathIDs, token \in Tokens :
          (AccountByID(method, idStr, token) /\ FailsGate(accounts, idStr, token))
          => resp' = Forbidden /\ accounts' = accounts]_vars

\* C6: a token presented after its expiry instant is answered 403
ExpiredTokenForbidden ==
    [][\A method \in {"GET", "DELETE"}, idStr \in PathIDs, token \in IssuedTokens :
          (AccountByID(method, idStr, token) /\ now > token.claims.ExpiresAt)
          => resp' = Forbidden]_vars

\* the number resolves to an account whose stored hash is that of the password
CredentialsMatch(tbl, body) ==
    /\ body # Malformed
    /\ \E a \in GetAccountByNumber(tbl, body.number) :
          a.encrypted_password = Hash(body.password)

\* C7: POST /login answers 200 only for a known number with its password; an
\* unknown number or another password is answered 400 and no token is sent
LoginChecksPassword ==
    [][\A body \in LoginBodies :
          Login("POST", body) =>
             /\ resp'.status = StatusOK => CredentialsMatch(accounts, body)
             /\ ~CredentialsMatch(accounts, body) =>
                   resp'.status = StatusBadRequest /\ issued' = issued]_vars

RECURSIVE SumAmounts(_)
SumAmounts(ws) ==
    IF ws = {} THEN 0
    ELSE LET w == CHOOSE x \in ws : TRUE
         IN  pending[w].body.amount + SumAmounts(ws \ {w})

\* the balance of the account all the workers' transfers draw on
SourceBalance(tbl) == SumBalances(GetAccountByNumber(tbl, 1))

\* C8: no balance is negative; and when the workers' transfers ask together
\* for exactly what the source held and all are answered, the amounts answered
\* 200 add up to the opening balance less the final one, which is all of it
DrainLosesNoDebit ==
    /\ \A a \in accounts : a.balance >= 0
    /\ ( /\ \A w \in Workers : pending[w].stage = "answered"
         /\ SumAmounts(Workers) = SourceBalance(opening) )
       => LET reported ==
                  SumAmounts({w \in Workers : pending[w].status = StatusOK})
          IN  /\ reported = SourceBalance(opening) - SourceBalance(accounts)
              /\ reported = SourceBalance(opening)

\* C9: an id answered as deleted resolves to no account and is in no listing,
\* whatever has been created, deleted, logged in or looked up since
DeletedStayDeleted ==
    \A id \in deleted :
        /\ GetAccountByID(accounts, id) = {}
        /\ \A a \in GetAccounts(accounts) : a.id # id

\* an account has just been created while some id is deleted
CreatedAfterDelete ==
    /\ deleted # {}
    /\ resp.by = "handleCreateAccount"
    /\ resp.status = StatusOK

\* C10: a request to /account/{id} or to /transfer whose token is none a login
\* has sent is answered by the gate, not by the handler behind it
GateBeforeHandlers ==
    [][ /\ \A method \in Methods, idStr \in PathIDs, token \in ForgedTokens :
              AccountByID(method, idStr, token) => resp'.by = "withJWTAuth"
        /\ \A body \in TransferBodies, token \in TransferHeaders \cap ForgedTokens :
              Transfer(body, token) => resp'.by = "withJWTAuth"]_vars

====
